---- MODULE Spec2Model ----
(***************************************************************************)
(* FindAllReferencesProvider.provideReferences                             *)
(* (Extension/src/LanguageServer/Providers/findAllReferencesProvider.ts).  *)
(*                                                                         *)
(* Each query runs three synchronous blocks, separated by its two awaits:  *)
(*   Call    up to `await this.client.ready`                 (line 24)     *)
(*   Arm     lines 25-43, up to `await sendRequest(...)`                   *)
(*   Settle  lines 43-98, the continuation once the request settles        *)
(* JavaScript runs each block to completion, so each block is one action.  *)
(* Every call a block makes on a collaborator is appended, in program      *)
(* order, to the query's trace.                                            *)
(***************************************************************************)
EXTENDS Integers, Sequences, FiniteSets, TLC

\* ---------------------------------------------------------------- bounds
NumQueries == 2
MaxHits == 1
MaxHitsX == 3

Queries == 1..NumQueries

\* ------------------------------------------------------ program constants
\* The codes a ResponseError can carry (protocolFilter.ts); InternalError stands
\* for every code that is neither of the two cancellation codes.
RequestCancelled == "RequestCancelled"
ServerCancelled == "ServerCancelled"
InternalError == "InternalError"
SnippetWindowSize == 20
Score == 1

Confirmed == "Confirmed"
NotAReference == "NotAReference"

\* ------------------------------------------------------------ file system
\* A path is a sequence of characters.
PathA == <<"/", "w", "/", "a">>
PathB == <<"/", "w", "/", "b", " ">>
Files == {PathA, PathB}
Root == <<"/", "w">>
\* A workspace root that holds neither file.
OtherRoot == <<"/", "x">>

\* fs.readFileSync throws for a path that cannot be read.
NoFile == -1
\* fileContent.split('\n').length is at least 1 for a file that was read.
LineCounts == {5, 100}

Max(a, b) == IF a >= b THEN a ELSE b
Min(a, b) == IF a <= b THEN a ELSE b

\* ------------------------------------------------------------------- Uri
EncodeChar(c) == IF c = " " THEN <<"%", "2", "0">> ELSE <<c>>

RECURSIVE EncodePath(_)
EncodePath(p) == IF p = <<>> THEN <<>> ELSE EncodeChar(Head(p)) \o EncodePath(Tail(p))

UriFile(path) == [scheme |-> "file", path |-> path]

UriToString(u) == <<"f", "i", "l", "e", ":", "/", "/">> \o EncodePath(u.path)

Substring(s, from) == IF from >= Len(s) THEN <<>> ELSE SubSeq(s, from + 1, Len(s))

\* getRelativePathFromUri that keeps the separator.
getRelativePathWithSeparator(basePath, file) ==
    Substring(UriToString(UriFile(file)), Len(UriToString(basePath)))

getRelativePathFromUri(basePath, file) ==
    Substring(UriToString(UriFile(file)), Len(UriToString(basePath)) + 1)

\* --------------------------------------------------------------- inputs
\* What the remote request can settle with.
\* A ResponseError of each code, and an error of another class that carries a
\* cancellation code.
Errors ==
    [kind : {"error"}, isResponseError : {TRUE},
     code : {RequestCancelled, ServerCancelled, InternalError}]
      \cup {[kind |-> "error", isResponseError |-> FALSE, code |-> RequestCancelled]}

NullResponse == [kind |-> "null"]

Hit(f, l, c, t) == [file |-> f, line |-> l, character |-> c, type |-> t]

SeqsUpTo(S, n) == UNION {[1..k -> S] : k \in 0..n}

Response(c, infos, len) ==
    [kind |-> "response", isCanceled |-> c, referenceInfos |-> infos, textLen |-> len]

\* The queries of the protocol model get short responses of Confirmed hits on
\* one file.
HitsMain == {Hit(PathA, 40, 2, Confirmed)}
Outcomes ==
    Errors \cup {NullResponse}
      \cup {Response(c, infos, 3) : c \in BOOLEAN, infos \in SeqsUpTo(HitsMain, MaxHits)}

\* The single query of the extraction model gets the longer ones.
SampleLines == {5, 8, 20, 40}
HitsX ==
    {Hit(f, l, 2, Confirmed) : f \in Files, l \in SampleLines}
      \cup {Hit(f, 8, 0, NotAReference) : f \in Files}
OutcomesX ==
    {[kind |-> "error", isResponseError |-> TRUE, code |-> InternalError], NullResponse}
      \cup {Response(c, infos, 3) : c \in BOOLEAN, infos \in SeqsUpTo(HitsX, MaxHitsX)}

\* ---------------------------------------------------------------- state
VARIABLES
    clientReady,      \* this.client.ready has resolved
    fileLines,        \* path -> number of lines of the file on disk, or NoFile
    workspaceFolders, \* vscode.workspace.workspaceFolders: root paths, <<>> for undefined
    pc,               \* query -> "idle" | "waitReady" | "awaiting" | "returned" | "thrown"
    tokenCancelled,   \* query -> token.isCancellationRequested (the caller's token)
    srcCancelled,     \* query -> cancelSource.token.isCancellationRequested
    tokenListener,    \* query -> cancellationTokenListener is subscribed
    sessionListener,  \* query -> requestCanceledListener is subscribed
    trace,            \* query -> the calls it made, in order
    settled,          \* query -> what its request settled with, and the handle then
    result,           \* query -> what provideReferences returned or threw
    refsOut,          \* query -> the refs array it built
    shownArg,         \* query -> the argument it gave showResultsInPanelView
    snippetSink,      \* process.env["__REFERENCED_SYMBOL_SNIPPET__"]
    supersededBy      \* query -> the queries that armed while it awaited its response

vars == <<clientReady, fileLines, workspaceFolders, pc, tokenCancelled, srcCancelled, tokenListener,
          sessionListener, trace, settled, result, refsOut, shownArg, snippetSink,
          supersededBy>>

NoOutcome == [kind |-> "none"]
NoResult == [kind |-> "none", locations |-> <<>>, error |-> NoOutcome]

\* The part of the state that the blocks of provideReferences transform.
State ==
    [pc |-> pc, srcCancelled |-> srcCancelled, tokenListener |-> tokenListener,
     sessionListener |-> sessionListener, trace |-> trace, settled |-> settled,
     result |-> result, refsOut |-> refsOut, shownArg |-> shownArg,
     snippetSink |-> snippetSink]

Commit(s) ==
    /\ pc' = s.pc
    /\ srcCancelled' = s.srcCancelled
    /\ tokenListener' = s.tokenListener
    /\ sessionListener' = s.sessionListener
    /\ trace' = s.trace
    /\ settled' = s.settled
    /\ result' = s.result
    /\ refsOut' = s.refsOut
    /\ shownArg' = s.shownArg
    /\ snippetSink' = s.snippetSink

Called(s, q, call) == [s EXCEPT !.trace[q] = Append(@, call)]

Count(t, call) == Cardinality({i \in DOMAIN t : t[i] = call})

\* The place of the first `call` in t; 0 when there is none.
IndexOf(t, call) ==
    IF \E i \in DOMAIN t : t[i] = call
    THEN CHOOSE i \in DOMAIN t : t[i] = call /\ \A j \in 1..(i - 1) : t[j] # call
    ELSE 0

\* ------------------------------------------- the shared reference session
\* workspaceReferences fires its cancellation event: every subscribed
\* requestCanceledListener runs `cancelSource.cancel()` (line 31).
FireCancellationRequested(s) ==
    [s EXCEPT !.srcCancelled = [p \in Queries |-> @[p] \/ s.sessionListener[p]]]

cancelCurrentReferenceRequest(s, q) ==
    Called(FireCancellationRequested(s), q, "cancelCurrentReferenceRequest(NewRequest)")

resetProgressBar(s, q) == Called(s, q, "resetProgressBar")

resetReferences(s, q) == Called(s, q, "resetReferences")

showResultsInPanelView(s, q, response) ==
    Called([s EXCEPT !.shownArg[q] = response], q, "showResultsInPanelView")

\* ------------------------------------------------- lines 25-43: arming
NewCancellationTokenSource(s, q) ==
    Called([s EXCEPT !.srcCancelled[q] = FALSE], q, "new CancellationTokenSource")

SubscribeToken(s, q) ==
    Called([s EXCEPT !.tokenListener[q] = TRUE], q, "token.onCancellationRequested")

SubscribeSession(s, q) ==
    Called([s EXCEPT !.sessionListener[q] = TRUE], q,
           "workspaceReferences.onCancellationRequested")

SendRequest(s, q) == Called([s EXCEPT !.pc[q] = "awaiting"], q, "sendRequest")

\* ArmBlock with the supersession signal sent after the listeners are subscribed.
ArmBlockSignalLast(s, q) ==
    LET s1 == NewCancellationTokenSource(s, q)
        s2 == SubscribeToken(s1, q)
        s3 == SubscribeSession(s2, q)
        s4 == cancelCurrentReferenceRequest(s3, q)
    IN  SendRequest(s4, q)

\* ArmBlock without the subscription to the session's cancellation event.
ArmBlockNoSessionListener(s, q) ==
    LET s1 == cancelCurrentReferenceRequest(s, q)
        s2 == NewCancellationTokenSource(s1, q)
        s3 == SubscribeToken(s2, q)
    IN  SendRequest(s3, q)

ArmBlock(s, q) ==
    LET s1 == cancelCurrentReferenceRequest(s, q)
        s2 == NewCancellationTokenSource(s1, q)
        s3 == SubscribeToken(s2, q)
        s4 == SubscribeSession(s3, q)
    IN  SendRequest(s4, q)

\* ------------------------------------------- lines 67-88: the hits' loop
Location(uri, line, startCharacter, endCharacter) ==
    [uri |-> uri,
     range |-> [start |-> [line |-> line, character |-> startCharacter],
                end |-> [line |-> line, character |-> endCharacter]]]

StartLine(line) == Max(0, line - SnippetWindowSize \div 2)

EndLine(lineCount, line) == Min(lineCount, line + SnippetWindowSize \div 2)

\* Array.prototype.slice(start, end) on an array of n lines: the index range kept.
Slice(n, start, end) ==
    LET from == Min(start, n)
        to == Min(end, n)
    IN  IF from < to THEN <<from, to>> ELSE <<>>

InitialCursor == 0

\* What fs.readFileSync throws for a file it cannot read.
FsError == [kind |-> "fsError"]

\* What `workspaceFolders![0]` throws when no folder is open.
TypeError == [kind |-> "typeError"]

\* ShouldEmit that also takes a window starting at the cursor.
ShouldEmitAtCursor(startLine, cursor) == startLine >= cursor

ShouldEmit(startLine, cursor) == startLine > cursor

\* VisitHit with the Location pushed only for a hit whose snippet is emitted.
VisitHitLocationWithSnippet(acc, info, textLen, lines, folders) ==
    IF acc.threw \/ info.type # Confirmed THEN acc
    ELSE
      LET loc == Location(UriFile(info.file), info.line, info.character,
                          info.character + textLen)
          n == lines[info.file]
          startLine == StartLine(info.line)
          endLine == EndLine(n, info.line)
          ref == [snippet |-> [file |-> info.file, lines |-> Slice(n, startLine, endLine)],
                  relativePath |-> getRelativePathFromUri(UriFile(folders[1]), info.file),
                  startLine |-> startLine, endLine |-> endLine, score |-> Score]
          emit == ShouldEmit(startLine, acc.cursor)
      IN  IF n = NoFile
          THEN [acc EXCEPT !.threw = TRUE, !.error = FsError]
          ELSE IF emit /\ folders = <<>>
          THEN [acc EXCEPT !.threw = TRUE, !.error = TypeError]
          ELSE [locations |-> IF emit THEN Append(acc.locations, loc) ELSE acc.locations,
                refs |-> IF emit THEN Append(acc.refs, ref) ELSE acc.refs,
                cursor |-> IF emit THEN endLine ELSE acc.cursor,
                threw |-> FALSE, error |-> NoOutcome]

VisitHit(acc, info, textLen, lines, folders) ==
    IF acc.threw \/ info.type # Confirmed THEN acc
    ELSE
      LET loc == Location(UriFile(info.file), info.line, info.character,
                          info.character + textLen)
          n == lines[info.file]
          startLine == StartLine(info.line)
          endLine == EndLine(n, info.line)
          ref == [snippet |-> [file |-> info.file, lines |-> Slice(n, startLine, endLine)],
                  relativePath |-> getRelativePathFromUri(UriFile(folders[1]), info.file),
                  startLine |-> startLine, endLine |-> endLine, score |-> Score]
          emit == ShouldEmit(startLine, acc.cursor)
      IN  IF n = NoFile
          THEN [acc EXCEPT !.threw = TRUE, !.error = FsError]
          ELSE IF emit /\ folders = <<>>
          THEN [acc EXCEPT !.threw = TRUE, !.error = TypeError]
          ELSE [locations |-> Append(acc.locations, loc),
                refs |-> IF emit THEN Append(acc.refs, ref) ELSE acc.refs,
                cursor |-> IF emit THEN endLine ELSE acc.cursor,
                threw |-> FALSE, error |-> NoOutcome]

RECURSIVE ForEachHit(_, _, _, _, _)
ForEachHit(acc, infos, textLen, lines, folders) ==
    IF infos = <<>> THEN acc
    ELSE ForEachHit(VisitHit(acc, Head(infos), textLen, lines, folders), Tail(infos),
                    textLen, lines, folders)

\* ------------------------------------ lines 43-98: after the request settles
\* IsCancellationError without ServerCancelled.
IsCancellationErrorRequestOnly(e) == e.isResponseError /\ e.code = RequestCancelled

\* IsCancellationError without the instanceof test.
IsCancellationErrorAnyClass(e) == e.code = RequestCancelled \/ e.code = ServerCancelled

IsCancellationError(e) ==
    e.isResponseError /\ (e.code = RequestCancelled \/ e.code = ServerCancelled)

Throw(s, q, e) ==
    [s EXCEPT !.pc[q] = "thrown",
              !.result[q] = [kind |-> "error", locations |-> <<>>, error |-> e]]

ReturnUndefined(s, q) ==
    [s EXCEPT !.pc[q] = "returned",
              !.result[q] = [kind |-> "undefined", locations |-> <<>>, error |-> NoOutcome]]

ReturnLocations(s, q, locs) ==
    [s EXCEPT !.pc[q] = "returned",
              !.result[q] = [kind |-> "locations", locations |-> locs, error |-> NoOutcome]]

DisposeListeners(s, q) ==
    Called(Called([s EXCEPT !.tokenListener[q] = FALSE, !.sessionListener[q] = FALSE],
                  q, "cancellationTokenListener.dispose"),
           q, "requestCanceledListener.dispose")

\* JSON.stringify(refs) written to the environment variable.
WriteSnippets(s, q, refs) ==
    Called([s EXCEPT !.snippetSink = [set |-> TRUE, owner |-> q, refs |-> refs]],
           q, "process.env.__REFERENCED_SYMBOL_SNIPPET__ =")

\* IsCancelled without the test of the internal handle.
IsCancelledNoHandle(s, q, o, cancelled) ==
    cancelled \/ (o.kind = "response" /\ o.isCanceled)

IsCancelled(s, q, o, cancelled) ==
    s.srcCancelled[q] \/ cancelled \/ (o.kind = "response" /\ o.isCanceled)

\* HasReferenceInfos asking for a Confirmed hit.
HasConfirmedInfos(o) ==
    o.kind = "response"
      /\ \E i \in DOMAIN o.referenceInfos : o.referenceInfos[i].type = Confirmed

HasReferenceInfos(o) == o.kind = "response" /\ Len(o.referenceInfos) > 0

\* ProcessResult with the results shown before the snippets are written.
ProcessResultShowFirst(s, q, o, cancelled, lines, folders) ==
    LET s1 == WriteSnippets(s, q, <<>>)
    IN  IF IsCancelled(s1, q, o, cancelled)
        THEN ReturnUndefined(resetReferences(s1, q), q)
        ELSE IF HasReferenceInfos(o)
        THEN LET acc == ForEachHit([locations |-> <<>>, refs |-> <<>>,
                                    cursor |-> InitialCursor, threw |-> FALSE,
                                    error |-> NoOutcome],
                                   o.referenceInfos, o.textLen, lines, folders)
                 s2 == [s1 EXCEPT !.refsOut[q] = acc.refs]
             IN  IF acc.threw
                 THEN Throw(s1, q, acc.error)
                 ELSE ReturnLocations(
                        WriteSnippets(showResultsInPanelView(s2, q, o), q, acc.refs),
                        q, acc.locations)
        ELSE ReturnLocations(resetReferences(s1, q), q, <<>>)

\* ProcessResult that resets the references before it shows the results.
ProcessResultResetAndShow(s, q, o, cancelled, lines, folders) ==
    LET s1 == WriteSnippets(s, q, <<>>)
    IN  IF IsCancelled(s1, q, o, cancelled)
        THEN ReturnUndefined(resetReferences(s1, q), q)
        ELSE IF HasReferenceInfos(o)
        THEN LET acc == ForEachHit([locations |-> <<>>, refs |-> <<>>,
                                    cursor |-> InitialCursor, threw |-> FALSE,
                                    error |-> NoOutcome],
                                   o.referenceInfos, o.textLen, lines, folders)
                 s2 == [s1 EXCEPT !.refsOut[q] = acc.refs]
             IN  IF acc.threw
                 THEN Throw(s1, q, acc.error)
                 ELSE ReturnLocations(
                        showResultsInPanelView(
                          WriteSnippets(resetReferences(s2, q), q, acc.refs), q, o),
                        q, acc.locations)
        ELSE ReturnLocations(resetReferences(s1, q), q, <<>>)

\* lines 56-98
ProcessResult(s, q, o, cancelled, lines, folders) ==
    LET s1 == WriteSnippets(s, q, <<>>)
    IN  IF IsCancelled(s1, q, o, cancelled)
        THEN ReturnUndefined(resetReferences(s1, q), q)
        ELSE IF HasReferenceInfos(o)
        THEN LET acc == ForEachHit([locations |-> <<>>, refs |-> <<>>,
                                    cursor |-> InitialCursor, threw |-> FALSE,
                                    error |-> NoOutcome],
                                   o.referenceInfos, o.textLen, lines, folders)
                 s2 == [s1 EXCEPT !.refsOut[q] = acc.refs]
             IN  IF acc.threw
                 THEN Throw(s1, q, acc.error)
                 ELSE ReturnLocations(
                        showResultsInPanelView(WriteSnippets(s2, q, acc.refs), q, o),
                        q, acc.locations)
        ELSE ReturnLocations(resetReferences(s1, q), q, <<>>)

\* SettleBlock with the progress bar reset and the listeners disposed after the
\* result is processed.
SettleBlockCleanupLast(s, q, o, lines, folders) ==
    IF o.kind = "error" /\ ~IsCancellationError(o)
    THEN Throw(s, q, o)
    ELSE DisposeListeners(
           resetProgressBar(ProcessResult(s, q, o, o.kind = "error", lines, folders), q), q)

\* lines 42-54 and on
SettleBlock(s, q, o, lines, folders) ==
    IF o.kind = "error" /\ ~IsCancellationError(o)
    THEN Throw(s, q, o)
    ELSE ProcessResult(DisposeListeners(resetProgressBar(s, q), q), q, o,
                       o.kind = "error", lines, folders)

\* --------------------------------------------------------------- actions
InitCommon ==
    /\ clientReady = FALSE
    /\ pc = [q \in Queries |-> "idle"]
    /\ tokenCancelled = [q \in Queries |-> FALSE]
    /\ srcCancelled = [q \in Queries |-> FALSE]
    /\ tokenListener = [q \in Queries |-> FALSE]
    /\ sessionListener = [q \in Queries |-> FALSE]
    /\ trace = [q \in Queries |-> <<>>]
    /\ settled = [q \in Queries |-> [outcome |-> NoOutcome, handleCancelled |-> FALSE]]
    /\ result = [q \in Queries |-> NoResult]
    /\ refsOut = [q \in Queries |-> <<>>]
    /\ shownArg = [q \in Queries |-> NoOutcome]
    /\ snippetSink = [set |-> FALSE, owner |-> 0, refs |-> <<>>]
    /\ supersededBy = [q \in Queries |-> {}]

\* The responses of the protocol model name PathA only, a file of 100 lines.
Init ==
    /\ InitCommon
    /\ fileLines = [f \in Files |-> IF f = PathA THEN 100 ELSE NoFile]
    /\ workspaceFolders = <<Root>>

\* The language client finishes starting.
ClientReady ==
    /\ ~clientReady
    /\ clientReady' = TRUE
    /\ UNCHANGED <<fileLines, workspaceFolders, pc, tokenCancelled, srcCancelled,
                   tokenListener, sessionListener, trace, settled, result, refsOut,
                   shownArg, snippetSink, supersededBy>>

\* The host calls provideReferences; it suspends at `await this.client.ready`.
Call(q) ==
    /\ pc[q] = "idle"
    /\ pc' = [pc EXCEPT ![q] = "waitReady"]
    /\ UNCHANGED <<clientReady, fileLines, workspaceFolders, tokenCancelled, srcCancelled,
                   tokenListener, sessionListener, trace, settled, result, refsOut,
                   shownArg, snippetSink, supersededBy>>

Arm(q) ==
    /\ pc[q] = "waitReady"
    /\ clientReady
    /\ Commit(ArmBlock(State, q))
    /\ supersededBy' = [p \in Queries |->
                          IF pc[p] = "awaiting" THEN supersededBy[p] \cup {q}
                          ELSE supersededBy[p]]
    /\ UNCHANGED <<clientReady, fileLines, workspaceFolders, tokenCancelled>>

\* The caller's token fires while cancellationTokenListener is subscribed (also
\* one that was never disposed); the listener runs `cancelSource.cancel()`
\* (line 30).
TokenCancel(q) ==
    /\ tokenListener[q]
    /\ ~tokenCancelled[q]
    /\ tokenCancelled' = [tokenCancelled EXCEPT ![q] = TRUE]
    /\ srcCancelled' = [srcCancelled EXCEPT ![q] = TRUE]
    /\ UNCHANGED <<clientReady, fileLines, workspaceFolders, pc, tokenListener,
                   sessionListener, trace, settled, result, refsOut, shownArg,
                   snippetSink, supersededBy>>

\* The session broadcasts a cancellation that no query of this provider asked for.
SessionCancel ==
    /\ \E p \in Queries : sessionListener[p] /\ ~srcCancelled[p]
    /\ Commit(FireCancellationRequested(State))
    /\ UNCHANGED <<clientReady, fileLines, workspaceFolders, tokenCancelled, supersededBy>>

\* The request of query q settles with one of `outcomes`, and the rest of
\* provideReferences runs.
Settle(q, outcomes) ==
    /\ pc[q] = "awaiting"
    /\ \E o \in outcomes :
         Commit(SettleBlock(
           [State EXCEPT !.settled[q] = [outcome |-> o, handleCancelled |-> srcCancelled[q]]],
           q, o, fileLines, workspaceFolders))
    /\ UNCHANGED <<clientReady, fileLines, workspaceFolders, tokenCancelled, supersededBy>>

Next ==
    \/ ClientReady
    \/ \E q \in Queries : Call(q)
    \/ \E q \in Queries : Arm(q)
    \/ \E q \in Queries : TokenCancel(q)
    \/ SessionCancel
    \/ \E q \in Queries : Settle(q, Outcomes)

Spec == Init /\ [][Next]_vars

\* One query, the longer responses, files of every kind.
InitX ==
    /\ InitCommon
    /\ fileLines \in [Files -> {NoFile} \cup LineCounts]
    /\ workspaceFolders \in {<<>>, <<Root>>, <<OtherRoot>>}

NextX ==
    \/ ClientReady
    \/ Call(1)
    \/ Arm(1)
    \/ TokenCancel(1)
    \/ Settle(1, OutcomesX)

SpecX == InitX /\ [][NextX]_vars

\* =============================================================== claims
Done(q) == pc[q] \in {"returned", "thrown"}

Armed(q) == pc[q] \in {"awaiting", "returned", "thrown"}

\* The request of q failed with a ResponseError of a recognized cancellation code.
RecognizedCancellation(q) ==
    LET o == settled[q].outcome
    IN  o.kind = "error" /\ o.isResponseError /\ o.code \in {RequestCancelled, ServerCancelled}

\* The request of q failed with any other error.
OtherError(q) == settled[q].outcome.kind = "error" /\ ~RecognizedCancellation(q)

ResponseCanceled(q) ==
    settled[q].outcome.kind = "response" /\ settled[q].outcome.isCanceled

\* One of the cancellation triggers fired for q: the external token or the
\* session broadcast (either cancels the internal handle), a recognized
\* cancellation error, or isCanceled in the response.
Triggered(q) ==
    settled[q].handleCancelled \/ RecognizedCancellation(q) \/ ResponseCanceled(q)

Calls(q, call) == Count(trace[q], call)

ArmCalls ==
    <<"cancelCurrentReferenceRequest(NewRequest)", "new CancellationTokenSource",
      "token.onCancellationRequested", "workspaceReferences.onCancellationRequested",
      "sendRequest">>

CancelledOutCalls ==
    ArmCalls \o <<"resetProgressBar", "cancellationTokenListener.dispose",
                  "requestCanceledListener.dispose",
                  "process.env.__REFERENCED_SYMBOL_SNIPPET__ =", "resetReferences">>

\* provideReferences returned undefined, reset the references once, showed nothing.
CancelledOut(q) ==
    /\ pc[q] = "returned"
    /\ result[q] = [kind |-> "undefined", locations |-> <<>>, error |-> NoOutcome]
    /\ Calls(q, "resetReferences") = 1
    /\ Calls(q, "showResultsInPanelView") = 0
    /\ trace[q] = CancelledOutCalls

\* The error the request failed with went to the caller, and the session was not written.
Rethrown(q) ==
    /\ pc[q] = "thrown"
    /\ result[q].kind = "error"
    /\ result[q].error = settled[q].outcome
    /\ Calls(q, "sendRequest") = 1
    /\ Calls(q, "resetReferences") = 0
    /\ Calls(q, "showResultsInPanelView") = 0

\* C1 (as stated): every query for which any of the cancellation triggers fired
\* returns undefined without throwing, calls resetReferences exactly once and
\* never showResultsInPanelView, with the same observable calls whichever fired.
C1_AnyTriggerCancelledOut ==
    \A q \in Queries : (Done(q) /\ Triggered(q)) => CancelledOut(q)

\* C1 (amended): the same, for the queries whose request did not fail with an
\* unrecognized error; a query whose token or broadcast fired and whose request
\* then fails with an unrecognized error rethrows it and writes nothing.
C1_TriggerCancelledOutUnlessOtherError ==
    \A q \in Queries :
        (Done(q) /\ Triggered(q)) =>
            IF OtherError(q) THEN Rethrown(q) ELSE CancelledOut(q)

\* Two triggers at once: the handle was cancelled and the response, with hits,
\* has isCanceled set.
C1_Witness ==
    \E q \in Queries :
        /\ pc[q] = "returned"
        /\ settled[q].handleCancelled
        /\ ResponseCanceled(q)
        /\ Len(settled[q].outcome.referenceInfos) > 0
        /\ result[q].kind = "undefined"

\* C2 (as stated): when the internal handle is cancelled by the time the request
\* settles, provideReferences returns undefined, resets the session and does
\* not throw, however the request settled.
C2_HandleCancelledNeverThrows ==
    \A q \in Queries :
        (Done(q) /\ settled[q].handleCancelled) =>
            /\ pc[q] = "returned"
            /\ result[q].kind = "undefined"
            /\ Calls(q, "resetReferences") = 1

\* C2 (amended): when the internal handle is cancelled by the time the request
\* settles with a response or a recognized cancellation error, the query
\* returns undefined and resets the session; when it settles with any other
\* error, that error is thrown although the handle is cancelled.
C2_HandleCancelledReturnsUnlessOtherError ==
    \A q \in Queries :
        (Done(q) /\ settled[q].handleCancelled) =>
            IF OtherError(q)
            THEN pc[q] = "thrown" /\ result[q].error = settled[q].outcome
            ELSE /\ pc[q] = "returned"
                 /\ result[q].kind = "undefined"
                 /\ Calls(q, "resetReferences") = 1

\* Only the handle says cancelled: the response has Confirmed hits and no flag.
C2_Witness ==
    \E q \in Queries :
        /\ pc[q] = "returned"
        /\ settled[q].handleCancelled
        /\ settled[q].outcome.kind = "response"
        /\ ~settled[q].outcome.isCanceled
        /\ \E i \in DOMAIN settled[q].outcome.referenceInfos :
               settled[q].outcome.referenceInfos[i].type = Confirmed
        /\ result[q].kind = "undefined"

\* C3 (as stated): once provideReferences has concluded, by return or by throw,
\* neither of the query's two listeners is still subscribed.
C3_ListenersDisposedOnEveryExit ==
    \A q \in Queries : Done(q) => (~tokenListener[q] /\ ~sessionListener[q])

\* C4 (as stated): once the request has settled and provideReferences has
\* concluded, by return or by throw, resetProgressBar has been called.
C4_ProgressBarResetOnEveryPath ==
    \A q \in Queries :
        (Done(q) /\ settled[q].outcome.kind # "none") => Calls(q, "resetProgressBar") = 1

\* C5: a request that fails with an error that is no recognized cancellation,
\* with no cancellation requested, makes provideReferences throw that same
\* error, after one request only, with no resetReferences and no
\* showResultsInPanelView.
C5_OtherErrorRethrownUnchanged ==
    \A q \in Queries :
        (Done(q) /\ OtherError(q) /\ ~settled[q].handleCancelled) => Rethrown(q)

\* An error that carries a cancellation code but is no ResponseError was thrown.
C5_Witness ==
    \E q \in Queries :
        /\ pc[q] = "thrown"
        /\ ~settled[q].handleCancelled
        /\ settled[q].outcome.kind = "error"
        /\ ~settled[q].outcome.isResponseError
        /\ settled[q].outcome.code = RequestCancelled
        /\ result[q].error = settled[q].outcome

\* C10: a query signals cancelCurrentReferenceRequest(NewRequest) exactly once:
\* not before the client is ready, and before it allocates its cancellation
\* source, subscribes either listener and sends the request.
C10_SupersedeOnceBeforeArming ==
    \A q \in Queries :
        /\ ~Armed(q) => trace[q] = <<>>
        /\ Armed(q) =>
            /\ clientReady
            /\ Calls(q, "cancelCurrentReferenceRequest(NewRequest)") = 1
            /\ IndexOf(trace[q], "cancelCurrentReferenceRequest(NewRequest)") = 1
            /\ \A call \in {"new CancellationTokenSource", "token.onCancellationRequested",
                            "workspaceReferences.onCancellationRequested", "sendRequest"} :
                   /\ Calls(q, call) = 1
                   /\ IndexOf(trace[q], call) > 1

\* A query armed while another was in flight: its signal cancelled the other's
\* handle and left its own alone.
C10_Witness ==
    \E q, p \in Queries :
        /\ q # p
        /\ pc[q] = "awaiting" /\ ~srcCancelled[q]
        /\ pc[p] = "awaiting" /\ srcCancelled[p] /\ ~tokenCancelled[p]
        /\ Calls(q, "cancelCurrentReferenceRequest(NewRequest)") = 1

\* ------------------------------------------- claims on the processed result
IsConfirmed(h) == h.type = Confirmed

ConfirmedHits(o) == SelectSeq(o.referenceInfos, IsConfirmed)

\* q got a response and nothing cancelled it.
NonCancelledResponse(q) ==
    /\ Done(q)
    /\ settled[q].outcome.kind = "response"
    /\ ~Triggered(q)

Windows(refs) == [i \in DOMAIN refs |-> <<refs[i].startLine, refs[i].endLine>>]

\* The lines of the half-open window [startLine, endLine).
WindowLines(w) == {l \in w[1]..(w[2] - 1) : TRUE}

C7_OneLocationPerConfirmedHit ==
    \A q \in Queries :
        (NonCancelledResponse(q) /\ pc[q] = "returned") =>
            LET o == settled[q].outcome
                conf == ConfirmedHits(o)
            IN  /\ result[q].kind = "locations"
                /\ Len(result[q].locations) = Len(conf)
                /\ \A i \in DOMAIN conf :
                     result[q].locations[i] =
                       [uri |-> [scheme |-> "file", path |-> conf[i].file],
                        range |-> [start |-> [line |-> conf[i].line,
                                              character |-> conf[i].character],
                                   end |-> [line |-> conf[i].line,
                                            character |-> conf[i].character + o.textLen]]]

\* Confirmed hits in descending line order around a hit of another
\* classification: three hits, two locations, fewer snippets than locations.
C7_Witness ==
    \E q \in Queries :
        /\ NonCancelledResponse(q) /\ pc[q] = "returned"
        /\ Len(settled[q].outcome.referenceInfos) = 3
        /\ Len(result[q].locations) = 2
        /\ result[q].locations[1].range.start.line > result[q].locations[2].range.start.line
        /\ Len(refsOut[q]) < 2

\* C8 (as stated): the emitted snippets number at most the Confirmed hits, and
\* in emission order their [startLine, endLine) windows are pairwise
\* non-overlapping and strictly increasing in startLine.
C8_WindowsDisjointAndIncreasing ==
    \A q \in Queries :
        (NonCancelledResponse(q) /\ pc[q] = "returned") =>
            LET w == Windows(refsOut[q])
            IN  /\ Len(w) <= Len(ConfirmedHits(settled[q].outcome))
                /\ \A i, j \in DOMAIN w :
                     i < j => /\ w[i][1] < w[j][1]
                              /\ WindowLines(w[i]) \cap WindowLines(w[j]) = {}

\* C9 (as stated): Confirmed hits at lines 5, 8 and 40 of one 100-line file give
\* 3 locations and 2 snippets, with windows [0,15) and [30,50).
C9_ScenarioTwoSnippets ==
    \A q \in Queries : \A f \in Files :
        ( /\ pc[q] = "returned"
          /\ ~settled[q].handleCancelled
          /\ fileLines[f] = 100
          /\ settled[q].outcome =
               Response(FALSE, <<Hit(f, 5, 2, Confirmed), Hit(f, 8, 2, Confirmed),
                                 Hit(f, 40, 2, Confirmed)>>, 3) )
        => /\ Len(result[q].locations) = 3
           /\ Windows(refsOut[q]) = <<<<0, 15>>, <<30, 50>>>>

\* The last n calls of q.
LastCalls(q, n) ==
    IF Len(trace[q]) < n THEN <<>> ELSE SubSeq(trace[q], Len(trace[q]) - n + 1, Len(trace[q]))

\* Building the snippets of q's response cannot throw: every Confirmed hit's
\* file can be read and a workspace folder is open.
SnippetsBuildable(q) ==
    /\ workspaceFolders # <<>>
    /\ \A i \in DOMAIN settled[q].outcome.referenceInfos :
         LET h == settled[q].outcome.referenceInfos[i]
         IN  h.type = Confirmed => fileLines[h.file] # NoFile

\* q showed its full response once, as its last call, right after it wrote its
\* snippets to the sink, and returned one location per Confirmed hit.
PublishedAndReturned(q) ==
    /\ pc[q] = "returned"
    /\ Calls(q, "showResultsInPanelView") = 1
    /\ shownArg[q] = settled[q].outcome
    /\ LastCalls(q, 2) = <<"process.env.__REFERENCED_SYMBOL_SNIPPET__ =",
                           "showResultsInPanelView">>
    /\ snippetSink = [set |-> TRUE, owner |-> q, refs |-> refsOut[q]]
    /\ result[q].kind = "locations"
    /\ Len(result[q].locations) = Len(ConfirmedHits(settled[q].outcome))

C12_CleanupBeforeInterpretation ==
    \A q \in Queries :
        pc[q] = "returned" =>
            /\ ~tokenListener[q] /\ ~sessionListener[q]
            /\ \A pre \in {"resetProgressBar", "cancellationTokenListener.dispose",
                           "requestCanceledListener.dispose"} :
                 /\ Calls(q, pre) = 1
                 /\ \A i \in DOMAIN trace[q] :
                      trace[q][i] \in {"resetReferences", "showResultsInPanelView"}
                        => IndexOf(trace[q], pre) < i

\* One query returned after resetReferences and another after
\* showResultsInPanelView.
C12_Witness ==
    \E q, p \in Queries :
        /\ pc[q] = "returned" /\ Calls(q, "resetReferences") = 1
        /\ pc[p] = "returned" /\ Calls(p, "showResultsInPanelView") = 1

\* C13: once a newer query has armed while an older one was still awaiting its
\* response, the older one never calls showResultsInPanelView and never
\* returns a location list, whatever its request settles with.
C13_SupersededNeverPublishes ==
    \A p \in Queries :
        supersededBy[p] # {} =>
            /\ Calls(p, "showResultsInPanelView") = 0
            /\ result[p].kind # "locations"

\* A superseded query got a response with a Confirmed hit and no cancellation
\* flag, while its caller's token never fired, and returned undefined.
C13_Witness ==
    \E p \in Queries :
        /\ supersededBy[p] # {}
        /\ ~tokenCancelled[p]
        /\ pc[p] = "returned"
        /\ settled[p].outcome.kind = "response"
        /\ ~settled[p].outcome.isCanceled
        /\ Len(ConfirmedHits(settled[p].outcome)) >= 1
        /\ result[p].kind = "undefined"

\* The writes q made to the shared session.
SessionWrites(q) == Calls(q, "resetReferences") + Calls(q, "showResultsInPanelView")

\* C14 (as stated): once a newer query has published its results, the older
\* query it superseded makes no further write to the shared session: its late
\* conclusion calls neither resetReferences nor showResultsInPanelView.
C14_SupersededNeverWritesAfterPublish ==
    [][\A p \in Queries :
         (\E q \in supersededBy[p] : Calls(q, "showResultsInPanelView") = 1)
           => SessionWrites(p)' = SessionWrites(p)]_vars

\* C15: a query that runs alone (no other query arms, no session broadcast),
\* whose token never fires and whose response is not flagged cancelled, finds
\* its handle not cancelled and does not end in CancelledOut: its own
\* supersession signal came before its subscription.
C15_OwnSignalNeverCancels ==
    \A q \in Queries :
        ( /\ Done(q)
          /\ \A p \in Queries \ {q} : pc[p] = "idle"
          /\ ~tokenCancelled[q]
          /\ settled[q].outcome.kind = "response"
          /\ ~settled[q].outcome.isCanceled )
        => /\ ~settled[q].handleCancelled
           /\ ~srcCancelled[q]
           /\ result[q].kind # "undefined"

\* A query that ran alone returned the locations of its Confirmed hits.
C15_Witness ==
    \E q \in Queries :
        /\ \A p \in Queries \ {q} : pc[p] = "idle"
        /\ ~tokenCancelled[q]
        /\ pc[q] = "returned"
        /\ result[q].kind = "locations"
        /\ Len(result[q].locations) >= 1

\* ------------------------------------------------- the fold of section 4.3
\* The window of a Confirmed hit: 10 lines above, 10 below, as the claims state it.
WindowOf(h) ==
    LET n == fileLines[h.file]
    IN  <<IF h.line - 10 > 0 THEN h.line - 10 ELSE 0,
          IF h.line + 10 < n THEN h.line + 10 ELSE n>>

\* The cursor after the first i of the Confirmed hits `conf`.
CursorAfter(conf) ==
    LET c[i \in 0..Len(conf)] ==
          IF i = 0 THEN 0
          ELSE IF WindowOf(conf[i])[1] > c[i - 1] THEN WindowOf(conf[i])[2] ELSE c[i - 1]
    IN  c

\* The places, among the Confirmed hits, of those that emit a snippet.
Emitting(conf) ==
    {i \in DOMAIN conf : WindowOf(conf[i])[1] > CursorAfter(conf)[i - 1]}

\* The elements of s at the places in I, in order.
RECURSIVE Pick(_, _, _)
Pick(s, I, i) ==
    IF i > Len(s) THEN <<>>
    ELSE (IF i \in I THEN <<s[i]>> ELSE <<>>) \o Pick(s, I, i + 1)

\* C16: the snippet list is the fold over the Confirmed hits in received order:
\* the cursor starts at 0, a hit emits iff its window's startLine is strictly
\* greater than the cursor, emission moves the cursor to the window's endLine,
\* and the one cursor serves all the files of the query.
C16_SnippetsAreTheFold ==
    \A q \in Queries :
        (NonCancelledResponse(q) /\ pc[q] = "returned") =>
            LET conf == ConfirmedHits(settled[q].outcome)
                kept == Pick(conf, Emitting(conf), 1)
            IN  /\ Len(refsOut[q]) = Len(kept)
                /\ \A i \in DOMAIN kept :
                     /\ refsOut[q][i].snippet.file = kept[i].file
                     /\ <<refsOut[q][i].startLine, refsOut[q][i].endLine>> = WindowOf(kept[i])

\* Hits on two files: the first file's snippet moved the cursor past the
\* window of the hit at line 20 of the other file, which emitted nothing.
C16_Witness ==
    \E q \in Queries :
        /\ NonCancelledResponse(q) /\ pc[q] = "returned"
        /\ Len(result[q].locations) = 2
        /\ Len(refsOut[q]) = 1
        /\ result[q].locations[1].uri # result[q].locations[2].uri
        /\ refsOut[q][1].snippet.file = result[q].locations[1].uri.path
        /\ result[q].locations[2].range.start.line = 20

\* C17 (as stated): the window of a Confirmed hit at line L of a file of
\* lineCount lines is startLine = max(0, L - 10), endLine = min(lineCount,
\* L + 10), with 0 <= startLine <= endLine <= lineCount, whatever L and
\* lineCount. Stated of the windows the query recorded.
C17_WindowWithinFile ==
    \A q \in Queries :
        (NonCancelledResponse(q) /\ pc[q] = "returned") =>
            \A i \in DOMAIN refsOut[q] :
                LET r == refsOut[q][i]
                    n == fileLines[r.snippet.file]
                    conf == ConfirmedHits(settled[q].outcome)
                IN  /\ \E j \in DOMAIN conf :
                         /\ conf[j].file = r.snippet.file
                         /\ <<r.startLine, r.endLine>> = WindowOf(conf[j])
                    /\ 0 <= r.startLine
                    /\ r.startLine <= r.endLine
                    /\ r.endLine <= n

\* The i-th Confirmed hit of q's response yielded a SnippetRecord: it is the
\* k-th hit to emit and the k-th record is on its file with its window.
Yields(q, conf, i) ==
    /\ i \in Emitting(conf)
    /\ LET k == Cardinality({j \in Emitting(conf) : j <= i})
       IN  /\ k <= Len(refsOut[q])
           /\ refsOut[q][k].snippet.file = conf[i].file
           /\ <<refsOut[q][k].startLine, refsOut[q][k].endLine>> = WindowOf(conf[i])

\* C18 (as stated): a Confirmed hit yields no SnippetRecord only if its window
\* overlaps the window of a snippet emitted earlier in the same query for the
\* same file; so the first Confirmed hit of the query, and of each file,
\* yields one.
C18_SuppressedOnlyByOverlapInFile ==
    \A q \in Queries :
        (NonCancelledResponse(q) /\ pc[q] = "returned") =>
            LET conf == ConfirmedHits(settled[q].outcome)
            IN  \A i \in DOMAIN conf :
                    ~Yields(q, conf, i) =>
                        \E j \in 1..(i - 1) :
                            /\ Yields(q, conf, j)
                            /\ conf[j].file = conf[i].file
                            /\ WindowLines(WindowOf(conf[j]))
                                 \cap WindowLines(WindowOf(conf[i])) # {}

StartsWith(s, p) == Len(p) <= Len(s) /\ SubSeq(s, 1, Len(p)) = p

\* C20: when the URI string of a hit's file begins with the URI string of the
\* workspace root followed by one separator, root URI string + separator +
\* relativePath is the URI string of the file.
C20_RelativePathRoundTrips ==
    \A q \in Queries :
        \A i \in DOMAIN refsOut[q] :
            LET r == refsOut[q][i]
                fileUri == UriToString(UriFile(r.snippet.file))
                rootUri == UriToString(UriFile(workspaceFolders[1]))
            IN  StartsWith(fileUri, rootUri \o <<"/">>)
                  => rootUri \o <<"/">> \o r.relativePath = fileUri

\* A snippet of the file whose name is percent-encoded in its URI, under the
\* root.
C20_Witness ==
    \E q \in Queries :
        \E i \in DOMAIN refsOut[q] :
            /\ workspaceFolders = <<Root>>
            /\ refsOut[q][i].snippet.file = PathB
            /\ refsOut[q][i].relativePath = <<"b", "%", "2", "0">>

====
